---- MODULE Spec2Model ----
(***************************************************************************)
(* Breath-onset detection and breath features of respy.py.                 *)
(*                                                                         *)
(* A signal is a sequence of samples; sample k has timestamp k (so the     *)
(* sampling interval dt is 1 and sf = round(1/dt) = 1).  A cell of a table *)
(* is a tuple: <<>> is a missing value (NaN), <<v>> the number v, and      *)
(* <<p, q>> the quotient p / q.  A series is a function from timestamps    *)
(* (the pandas index labels) to cells.                                     *)
(*                                                                         *)
(* Arithmetic is exact and in integers: the de-meaned signal is carried in *)
(* units of 1/m (m the number of valid samples) and the derivative in      *)
(* units of 1/(2m); every comparison the code makes is homogeneous in      *)
(* these units.  The model follows the filtered=True path; the Butterworth *)
(* filters (scipy butter/filtfilt) are library code: the low-pass baseline *)
(* of line 155 is an input of the extraction step, any series that differs *)
(* from the signal at every sample.                                        *)
(***************************************************************************)
EXTENDS Integers, Sequences, FiniteSets, TLC

VARIABLES sig, pc, dsig, ext, Breaths, RespFeatures, interp_style

vars == <<sig, pc, dsig, ext, Breaths, RespFeatures, interp_style>>

\* Longest signal, in samples.
MaxLen == 6
\* Most leading samples that are missing (NaN).
MaxLead == 1
\* Sample values.
Vals == {0, 1, 2}

NaN == <<>>

----------------------------------------------------------------------------
\* Helpers on sets, sequences and cells.

Min(S) == CHOOSE x \in S : \A y \in S : x <= y
Max(S) == CHOOSE x \in S : \A y \in S : x >= y

RECURSIVE SortedSeq(_)
SortedSeq(S) == IF S = {} THEN <<>> ELSE <<Min(S)>> \o SortedSeq(S \ {Min(S)})

RECURSIVE SumOver(_, _)
SumOver(f, S) ==
    IF S = {} THEN 0
    ELSE LET k == CHOOSE x \in S : TRUE IN f[k][1] + SumOver(f, S \ {k})

sign(x) == IF x > 0 THEN 1 ELSE IF x < 0 THEN -1 ELSE 0

Clip(x, lo, hi) == IF lo > hi THEN hi ELSE IF x < lo THEN lo ELSE IF x > hi THEN hi ELSE x

\* a - b and a / b on cells; a missing operand gives a missing result.
Sub(a, b) == IF a = NaN \/ b = NaN THEN NaN ELSE <<a[1] - b[1]>>
Div(a, b) == IF a = NaN \/ b = NaN THEN NaN ELSE <<a[1], b[1]>>

\* The input signals: up to MaxLead missing samples, then values.
Signals ==
    UNION { UNION { { [k \in 1..(l + m) |-> IF k <= l THEN NaN ELSE <<b[k - l]>>]
                      : b \in [1..m -> Vals] }
                    : m \in 0..(MaxLen - l) }
            : l \in 0..MaxLead } \ {<<>>}

\* The timestamps of the non-missing samples (df_sig.index).
Valid(s) == {k \in 1..Len(s) : s[k] # NaN}

\* The series of a whole signal, missing samples included.
AsSeries(s) == [k \in 1..Len(s) |-> s[k]]

----------------------------------------------------------------------------
\* diffed: first differences, put half a sample back and linearly
\* re-interpolated at the original timestamps.  The result is in units of
\* 1/2.  minimum is the least number of points interp1d accepts (1 or 2, by
\* scipy version); with one point the slope of _call_linear is 0/0.
\* fill_value "extrapolate" continues the first and the last segment
\* beyond the knots; any other leaves the values there missing.

diffedWith(S, minimum, fill_value) ==
    LET T == DOMAIN S
        lo == Min(T)
        knots == T \ {lo}
        n == Cardinality(knots)
        d(k) == Sub(S[k], S[k - 1])
        at(t) ==
            LET idx == Clip(t - lo, 1, n - 1)
                khi == lo + 1 + idx
                klo == lo + idx
            IN IF d(khi) = NaN \/ d(klo) = NaN THEN NaN
               ELSE IF fill_value # "extrapolate" /\ (t < klo \/ t >= khi) THEN NaN
               ELSE <<2 * d(klo)[1] + (d(khi)[1] - d(klo)[1]) * (2 * (t - klo) + 1)>>
    IN IF T = {} THEN [status |-> "ValueError", val |-> <<>>]
       ELSE IF n < minimum \/ n < 1 THEN [status |-> "ValueError", val |-> <<>>]
       ELSE IF n = 1 THEN [status |-> "ok", val |-> [t \in T |-> NaN]]
       ELSE [status |-> "ok", val |-> [t \in T |-> at(t)]]

\* Faulty variant: interp1d without fill_value='extrapolate'.
diffedNoExtrapolate(S, minimum) == diffedWith(S, minimum, "nan")

\* Line 40: interp1d(x, y, fill_value='extrapolate').
diffed(S, minimum) == diffedWith(S, minimum, "extrapolate")

\* The least number of points interp1d may demand.
InterpMinimum(S) == IF Cardinality(DOMAIN S) = 2 THEN {1, 2} ELSE {1}

----------------------------------------------------------------------------
\* Inspiration_Extract, lines 126-193.

\* Line 132: the non-missing samples minus their mean, in units of 1/m.
Demean(s) ==
    LET T == Valid(s)
        total == SumOver(s, T)
    IN [k \in T |-> <<Cardinality(T) * s[k][1] - total>>]

\* Lines 146-147: VelThresh = 0.55 * mean(Diff1[Diff1 > 0]), as the
\* quotient <<p, q>>; the mean of no value is NaN.
VelThreshOf(Diff1) ==
    LET pos == {k \in DOMAIN Diff1 : Diff1[k] # NaN /\ Diff1[k][1] > 0}
    IN IF pos = {} THEN NaN ELSE <<55 * SumOver(Diff1, pos), 100 * Cardinality(pos)>>

\* v < thr; a comparison with NaN is false.
Below(v, thr) == v # NaN /\ thr # NaN /\ v[1] * thr[2] < thr[1]

\* Lines 160-162: V.loc[V < VelThresh] = 0.
Threshold(Diff1, thr) ==
    [k \in DOMAIN Diff1 |-> IF Below(Diff1[k], thr) THEN <<0>> ELSE Diff1[k]]

\* np.sign(V).diff(): missing at the first timestamp.
SignDiff(V) ==
    [k \in DOMAIN V |->
        IF k = Min(DOMAIN V) \/ V[k] = NaN \/ V[k - 1] = NaN THEN NaN
        ELSE <<sign(V[k][1]) - sign(V[k - 1][1])>>]

\* a.index[a > 0.5] and a.index[a < -0.5].
Rising(a) == {k \in DOMAIN a : a[k] # NaN /\ 2 * a[k][1] > 1}
Falling(a) == {k \in DOMAIN a : a[k] # NaN /\ 2 * a[k][1] < -1}

\* Line 156-157: the timestamps where sign(Filt - Flatten) steps by 2.
CrossingsOf(Filt, Flatten) ==
    LET c == SignDiff([k \in DOMAIN Filt |-> Sub(Filt[k], Flatten[k])])
    IN {k \in DOMAIN Filt : c[k] = <<2>>}

\* Line 164: the interval starts, 2/sf back.
FirstPassIn(a) == SortedSeq({k - 2 : k \in Rising(a)})
\* Faulty variant: the second pass shifts its starts like the first.
SecondPassInShifted(a) == SortedSeq({k - 2 : k \in Rising(a)})

\* Line 182: the final inspiration onsets.
SecondPassIn(a) == SortedSeq(Rising(a))
\* Lines 165 and 183.
SegOutOf(a) == SortedSeq(Falling(a))

\* Faulty variant: the comparison of the trim turned around.
DropsLeadingReversed(segIn, segOut) == segOut[1] > segIn[1]

\* Lines 168-172 and 186-189: the trim at the ends.
DropsLeading(segIn, segOut) == segOut[1] < segIn[1]
TrimOut(segIn, segOut) == IF DropsLeading(segIn, segOut) THEN Tail(segOut) ELSE segOut
TrimIn(segIn, segOut) ==
    LET out == TrimOut(segIn, segOut)
    IN IF Len(out) < Len(segIn) THEN SubSeq(segIn, 1, Len(out)) ELSE segIn

\* Line 169: V.loc[:segOut[0]] = 0.
ZeroUpTo(V, t) == [k \in DOMAIN V |-> IF k <= t THEN <<0>> ELSE V[k]]

\* Lines 175-178: the timestamps zeroed because their interval holds no
\* candidate crossing.
CrossingFree(segIn, segOut, insp) ==
    LET cand == {c \in insp : c > segIn[1]}
    IN UNION { IF \E c \in cand : segIn[j] <= c /\ c <= segOut[j] THEN {}
               ELSE segIn[j]..segOut[j]
               : j \in 1..Len(segIn) }

ZeroOn(V, Z) == [k \in DOMAIN V |-> IF k \in Z THEN <<0>> ELSE V[k]]

NoExtract(status) ==
    [status |-> status, In |-> <<>>, Ex |-> <<>>, pass1 |-> FALSE,
     segIn1 |-> <<>>, segOut1 |-> <<>>, V0 |-> <<>>, insp |-> {}, Diff1 |-> <<>>]

\* s: the signal; off: Flatten - Filt, sample by sample; minimum: see diffed.
\* pass1 says that the first trim (line 172) was reached; segIn1, segOut1
\* and V0 (the thresholded velocity of line 162) are then its data.
Inspiration_Extract(s, off, minimum) ==
    LET Filt == Demean(s)
        D == diffed(Filt, minimum)
        Diff1 == D.val
        insp == CrossingsOf(Filt, [k \in DOMAIN Filt |-> <<Filt[k][1] + off[k]>>])
        V0 == Threshold(Diff1, VelThreshOf(Diff1))
        a0 == SignDiff(V0)
        segIn0 == FirstPassIn(a0)
        segOut0 == SegOutOf(a0)
        V1 == IF DropsLeading(segIn0, segOut0) THEN ZeroUpTo(V0, segOut0[1]) ELSE V0
        segOut1 == TrimOut(segIn0, segOut0)
        segIn1 == TrimIn(segIn0, segOut0)
        first == [status |-> "IndexError", In |-> <<>>, Ex |-> <<>>, pass1 |-> TRUE,
                  segIn1 |-> segIn1, segOut1 |-> segOut1, V0 |-> V0, insp |-> insp,
                  Diff1 |-> Diff1]
        V2 == ZeroOn(V1, CrossingFree(segIn1, segOut1, insp))
        a2 == SignDiff(V2)
        segIn2 == SecondPassIn(a2)
        segOut2 == SegOutOf(a2)
        In == TrimIn(segIn2, segOut2)
        Ex == TrimOut(segIn2, segOut2)
    IN IF Len(s) < 2 THEN NoExtract("ValueError")
       ELSE IF D.status # "ok" THEN NoExtract("ValueError")
       ELSE IF segOut0 = <<>> \/ segIn0 = <<>>
            THEN [NoExtract("IndexError") EXCEPT !.V0 = V0, !.insp = insp, !.Diff1 = Diff1]
       ELSE IF segIn1 = <<>> THEN first
       ELSE IF segOut2 = <<>> \/ segIn2 = <<>> THEN first
       ELSE IF Len(In) # Len(Ex) THEN [first EXCEPT !.status = "ValueError"]
       ELSE [first EXCEPT !.status = "ok", !.In = In, !.Ex = Ex]

----------------------------------------------------------------------------
\* Breath_Features, lines 234-254 (filtered=True: newResp['Filt'] = sig).

\* Line 245: newResp.loc[labels, 'Filt'], a lookup by label.
HasLabels(s, labels) == \A i \in 1..Len(labels) : labels[i] \in 1..Len(s)

\* Lines 247-248: Breaths.loc[:len(Breaths)-2, 'Period_T'] = In.diff()[1:].
Period_T(In, i) == IF i <= Len(In) - 1 THEN <<In[i + 1] - In[i]>> ELSE NaN

\* Faulty variant: Exp_T without the inspiration time taken off.
Exp_T_IsPeriod(In, Ex, i) == Period_T(In, i)

\* Line 249.
Exp_T(In, Ex, i) == Sub(Period_T(In, i), <<Ex[i] - In[i]>>)

FeatureRow(s, In, Ex, i) ==
    LET Depth == Sub(s[Ex[i]], s[In[i]])
        Insp_T == <<Ex[i] - In[i]>>
    IN [In |-> <<In[i]>>, Ex |-> <<Ex[i]>>, Depth |-> Depth, Insp_T |-> Insp_T,
        Period_T |-> Period_T(In, i), Exp_T |-> Exp_T(In, Ex, i),
        IE_Ratio |-> Div(Insp_T, Exp_T(In, Ex, i)),
        Insp_V |-> Div(Depth, Insp_T),
        Exp_V |-> Div(Depth, Exp_T(In, Ex, i))]

Breath_Features(s, In, Ex) ==
    IF ~(HasLabels(s, In) /\ HasLabels(s, Ex))
    THEN [status |-> "KeyError", rows |-> <<>>]
    ELSE [status |-> "ok", rows |-> [i \in 1..Len(In) |-> FeatureRow(s, In, Ex, i)]]

----------------------------------------------------------------------------
\* Breath_Continues_Features, lines 297-327.

\* cols[2:], with the first two characters of each name.
FeatureCols == {"Depth", "Insp_T", "Period_T", "Exp_T", "IE_Ratio", "Insp_V", "Exp_V"}
Prefix2 ==
    [Depth |-> "De", Insp_T |-> "In", Period_T |-> "Pe", Exp_T |-> "Ex",
     IE_Ratio |-> "IE", Insp_V |-> "In", Exp_V |-> "Ex"]

\* Faulty variant: every column on the inspiration onsets.
KnotColumnAlwaysIn(col) == "In"

\* Line 321: col.startswith('Ex').
KnotColumn(col) == IF Prefix2[col] = "Ex" THEN "Ex" ELSE "In"

\* Faulty variant: the knot itself still takes the value before it.
InterpPreviousStrict(x, y, t) ==
    LET n == Cardinality({i \in 1..Len(x) : x[i][1] < t})
    IN IF n = 0 THEN NaN ELSE y[n]

\* interp1d(x, y, kind='previous', fill_value='extrapolate') at t: the value
\* of the last knot at or before t, missing before the first knot.
InterpPrevious(x, y, t) ==
    LET n == Cardinality({i \in 1..Len(x) : x[i][1] <= t})
    IN IF n = 0 THEN NaN ELSE y[n]

\* Lines 322 and 324: the kind handed to interp1d.
Interp(style, x, y, t) == InterpPrevious(x, y, t)

Column(rows, col) == [i \in 1..Len(rows) |-> rows[i][col]]

Breath_Continues_Features(s, B, style, minimum) ==
    IF Len(B.rows) < minimum THEN [status |-> "ValueError", rows |-> <<>>]
    ELSE [status |-> "ok",
          rows |-> [t \in Valid(s) |->
                      [col \in FeatureCols \cup {"Filt"} |->
                          IF col = "Filt" THEN Demean(s)[t]
                          ELSE Interp(style, Column(B.rows, KnotColumn(col)),
                                      Column(B.rows, col), t)]]]

\* The kinds a caller may ask for.
Styles == {"previous", "next"}

----------------------------------------------------------------------------
\* The feature table in the state.
Rows == Breaths.rows
NRows == Len(Breaths.rows)

Init ==
    /\ sig \in Signals
    /\ pc = "start"
    /\ dsig = [status |-> "none", val |-> <<>>]
    /\ ext = NoExtract("none")
    /\ Breaths = [status |-> "none", rows |-> <<>>]
    /\ RespFeatures = [status |-> "none", rows |-> <<>>]
    /\ interp_style = "none"

Diffed ==
    /\ pc = "start"
    /\ \E minimum \in InterpMinimum(AsSeries(sig)) :
          dsig' = diffed(AsSeries(sig), minimum)
    /\ pc' = "diffed"
    /\ UNCHANGED <<sig, ext, Breaths, RespFeatures, interp_style>>

InspirationExtract ==
    /\ pc = "start"
    /\ \E off \in [Valid(sig) -> {-1, 1}] :
          \E minimum \in InterpMinimum(Demean(sig)) :
             ext' = Inspiration_Extract(sig, off, minimum)
    /\ pc' = "extracted"
    /\ UNCHANGED <<sig, dsig, Breaths, RespFeatures, interp_style>>

BreathFeatures ==
    /\ pc = "extracted"
    /\ ext.status = "ok"
    /\ Breaths' = Breath_Features(sig, ext.In, ext.Ex)
    /\ pc' = "features"
    /\ UNCHANGED <<sig, dsig, ext, RespFeatures, interp_style>>

BreathContinuesFeatures ==
    /\ pc = "features"
    /\ Breaths.status = "ok"
    /\ \E style \in Styles :
          /\ interp_style' = style
          /\ \E minimum \in (IF NRows = 1 THEN {1, 2} ELSE {1}) :
                RespFeatures' = Breath_Continues_Features(sig, Breaths, style, minimum)
    /\ pc' = "continuous"
    /\ UNCHANGED <<sig, dsig, ext, Breaths>>

Next == Diffed \/ InspirationExtract \/ BreathFeatures \/ BreathContinuesFeatures

Spec == Init /\ [][Next]_vars
----------------------------------------------------------------------------
\* Properties.

NoMissing(s) == \A k \in 1..Len(s) : s[k] # NaN

\* C1: whenever Inspiration_Extract returns a table, In and Ex have the
\* same length and interleave: In[i] < Ex[i], and Ex[i] < In[i+1] for
\* every row with a successor.
C1_Interleaved ==
    ext.status = "ok" =>
        /\ Len(ext.In) = Len(ext.Ex)
        /\ \A i \in 1..Len(ext.In) :
              /\ ext.In[i] < ext.Ex[i]
              /\ i < Len(ext.In) => ext.Ex[i] < ext.In[i + 1]

C1_Witness == ext.status = "ok" /\ Len(ext.In) >= 2

\* C2: when no complete inspiration interval exists or survives the
\* pruning, Inspiration_Extract never ends in an out-of-bounds index fault
\* (stated for the signals long enough to have a derivative: 3 samples).
C2_NoIndexFault ==
    (pc = "extracted" /\ Cardinality(Valid(sig)) >= 3) => ext.status # "IndexError"

\* C3: in the table of Breath_Features, every row but the last has
\* Period_T = In[i+1] - In[i] = Insp_T + Exp_T; the last row misses
\* Period_T, Exp_T, IE_Ratio and Exp_V and has In, Ex, Depth, Insp_T and
\* Insp_V.
C3_PeriodRows ==
    Breaths.status = "ok" =>
        \A i \in 1..NRows :
            IF i < NRows
            THEN /\ Rows[i].Period_T = <<Rows[i + 1].In[1] - Rows[i].In[1]>>
                 /\ Rows[i].Exp_T # NaN
                 /\ Rows[i].Period_T[1] = Rows[i].Insp_T[1] + Rows[i].Exp_T[1]
            ELSE /\ Rows[i].Period_T = NaN /\ Rows[i].Exp_T = NaN
                 /\ Rows[i].IE_Ratio = NaN /\ Rows[i].Exp_V = NaN
                 /\ Rows[i].In # NaN /\ Rows[i].Ex # NaN /\ Rows[i].Depth # NaN
                 /\ Rows[i].Insp_T # NaN /\ Rows[i].Insp_V # NaN

C3_Witness == Breaths.status = "ok" /\ NRows >= 2

\* The columns interpolated on the inspiration onsets.
InKeyed == {"Depth", "Insp_T", "Period_T", "IE_Ratio", "Insp_V"}

\* C4: the continuous table read at In[i] holds, in every column keyed on
\* the inspiration onsets, the value of row i of Breath_Features.
C4_RoundTrip ==
    RespFeatures.status = "ok" =>
        \A i \in 1..NRows : \A col \in InKeyed :
            RespFeatures.rows[Rows[i].In[1]][col] = Rows[i][col]

C4_Witness == RespFeatures.status = "ok" /\ NRows >= 2

\* C5: with interp_style 'next' a sample strictly between two inspiration
\* onsets takes, in the columns keyed on them, the value of the following
\* onset's row.
C5_NextKind ==
    (RespFeatures.status = "ok" /\ interp_style = "next") =>
        \A i \in 1..(NRows - 1) : \A t \in Valid(sig) : \A col \in InKeyed :
            (Rows[i].In[1] < t /\ t < Rows[i + 1].In[1]) =>
                RespFeatures.rows[t][col] = Rows[i + 1][col]

\* The maximal run of samples around timestamp k on which the thresholded
\* velocity keeps its sign.
RunOf(V, k) ==
    {l \in DOMAIN V :
        \A x \in Min({l, k})..Max({l, k}) : sign(V[x][1]) = sign(V[k][1])}

\* C6: every breath of the returned table comes from a first-pass interval
\* (its run of above-threshold velocity, from 2 samples before it to the
\* sample after it) that contains a candidate crossing.
C6_BreathHasCrossing ==
    ext.status = "ok" =>
        \A i \in 1..Len(ext.In) :
            \E c \in ext.insp :
                /\ Min(RunOf(ext.V0, ext.In[i])) - 2 <= c
                /\ c <= Max(RunOf(ext.V0, ext.In[i])) + 1

\* C7: after the first trim segIn and segOut have the same length and
\* segIn[j] + 2 and segOut[j] are the first sample of one run of
\* above-threshold velocity and the first sample after it.
C7_FirstPassPairs ==
    ext.pass1 =>
        /\ Len(ext.segIn1) = Len(ext.segOut1)
        /\ \A j \in 1..Len(ext.segIn1) :
              /\ ext.segIn1[j] < ext.segOut1[j]
              /\ RunOf(ext.V0, ext.segIn1[j] + 2) = (ext.segIn1[j] + 2)..(ext.segOut1[j] - 1)

\* C8: with the default kind, Exp_T and Exp_V at a sample in
\* [Ex[i], Ex[i+1]) and every other feature column at a sample in
\* [In[i], In[i+1]) hold row i's value; from the last onset on they hold
\* the last row's.
C8_StepHold ==
    (RespFeatures.status = "ok" /\ interp_style = "previous") =>
        \A i \in 1..NRows : \A t \in Valid(sig) : \A col \in FeatureCols :
            LET key == IF col \in {"Exp_T", "Exp_V"} THEN "Ex" ELSE "In"
            IN (Rows[i][key][1] <= t /\ (i < NRows => t < Rows[i + 1][key][1])) =>
                   RespFeatures.rows[t][col] = Rows[i][col]

C8_Witness ==
    /\ RespFeatures.status = "ok" /\ interp_style = "previous" /\ NRows >= 2
    /\ \E t \in Valid(sig) : t > Rows[NRows].Ex[1]

C10_OnsetsAreSamples ==
    /\ ext.status = "ok" =>
          \A i \in 1..Len(ext.In) : ext.In[i] \in Valid(sig) /\ ext.Ex[i] \in Valid(sig)
    /\ pc = "features" => Breaths.status = "ok"

C10_Witness ==
    /\ pc = "features" /\ Breaths.status = "ok" /\ NRows >= 1
    /\ ext.In[1] - 2 \notin Valid(sig)
====
